---- MODULE Spec2Model ----
(***************************************************************************)
(* Character calculator for the symmetric group S_n (src/character.py).    *)
(*                                                                         *)
(* The pure functions of the program (parse_cycle_type, character_M,       *)
(* rim_hooks, character_S) are operators computed the way the code         *)
(* computes them.  Four specifications run them:                           *)
(*   Spec      main(): validate, expand, character_M, character_S, print   *)
(*   SpecChar  character_M and character_S called on a partition and an    *)
(*             arbitrary sequence of cycle lengths; the recursion of mn    *)
(*             is a stack machine with its lru_cache                       *)
(*   SpecHooks rim_hooks(shape, hook_length), one step per outer corner    *)
(*   SpecOrth  the column-orthogonality sum over all partitions of n       *)
(* Rows and columns of cells are 0-based as in the code; sequences are     *)
(* 1-based, so row r of the code is shape[r + 1].                          *)
(***************************************************************************)
EXTENDS Integers, Sequences, FiniteSets, TLC

VARIABLES
    pc,             \* position of the running computation
    partition,      \* main: partition (line 118); argument of character_M/S
    cycle_counts,   \* main: cycle_counts (line 119)
    cycle_lengths,  \* main: cycle_lengths (line 124); argument of character_M/S
    chi_M,          \* main: chi_M (line 125)
    chi_S,          \* main: chi_S (line 126)
    out,            \* what main printed (lines 128-129), or the error raised
    stack,          \* the active calls of mn, innermost last
    cache,          \* the lru_cache of mn: records [shape, cycles, value]
    shape,          \* rim_hooks: shape
    hook_length,    \* rim_hooks: hook_length
    todo,           \* rim_hooks: corners the loop of line 77 has not visited
    hooks,          \* rim_hooks: hooks (line 39)
    paths,          \* the path behind each entry of hooks, in the same order
    remaining,      \* orthogonality sum: partitions not yet added
    acc             \* orthogonality sum: the sum so far

vars == <<pc, partition, cycle_counts, cycle_lengths, chi_M, chi_S, out,
          stack, cache, shape, hook_length, todo, hooks, paths, remaining, acc>>

mainVars == <<partition, cycle_counts, cycle_lengths, chi_M, chi_S, out>>
mnVars == <<stack, cache>>
hookVars == <<shape, hook_length, todo, hooks, paths>>
orthVars == <<remaining, acc>>

(***************************************************************************)
(* Bounds of the model.                                                    *)
(***************************************************************************)
\* largest n (sum of the partition) of main and of the orthogonality sum
MaxMainN == 4
\* largest entry of a cycle-count vector given to main
MaxCount == 2
\* largest n of the partitions given directly to character_M / character_S
MaxN == 5
\* largest number of cells of a shape given directly to rim_hooks
MaxCells == 8

None == "None"

(***************************************************************************)
(* Helpers on sequences.                                                   *)
(***************************************************************************)
Range(s) == {s[i] : i \in 1..Len(s)}

RECURSIVE SumSeq(_)
SumSeq(s) == IF s = <<>> THEN 0 ELSE s[1] + SumSeq(Tail(s))

RECURSIVE Repeat(_, _)
Repeat(x, k) == IF k <= 0 THEN <<>> ELSE <<x>> \o Repeat(x, k - 1)

RECURSIVE Flatten(_)
Flatten(ss) == IF ss = <<>> THEN <<>> ELSE ss[1] \o Flatten(Tail(ss))

\* insert x into the descending sequence s, after the elements equal to it
RECURSIVE InsertDesc(_, _)
InsertDesc(x, s) ==
    IF s = <<>> THEN <<x>>
    ELSE IF s[1] >= x THEN <<s[1]>> \o InsertDesc(x, Tail(s))
    ELSE <<x>> \o s

\* insert x into the ascending sequence s
RECURSIVE InsertAsc(_, _)
InsertAsc(x, s) ==
    IF s = <<>> THEN <<x>>
    ELSE IF s[1] <= x THEN <<s[1]>> \o InsertAsc(x, Tail(s))
    ELSE <<x>> \o s

\* mutant of SortDesc: sorted(s), reverse=True forgotten
RECURSIVE SortAsc(_)
SortAsc(s) ==
    IF s = <<>> THEN <<>>
    ELSE InsertAsc(s[Len(s)], SortAsc(SubSeq(s, 1, Len(s) - 1)))

\* sorted(s, reverse=True)
RECURSIVE SortDesc(_)
SortDesc(s) ==
    IF s = <<>> THEN <<>>
    ELSE InsertDesc(s[Len(s)], SortDesc(SubSeq(s, 1, Len(s) - 1)))

\* (-1) ** h, h >= 0
RECURSIVE MinusOnePow(_)
MinusOnePow(h) == IF h = 0 THEN 1 ELSE (-1) * MinusOnePow(h - 1)

\* non-increasing rows, all positive: a partition (a Young diagram shape)
IsPartition(s) ==
    /\ \A i \in 1..Len(s) : s[i] >= 1
    /\ \A i \in 1..(Len(s) - 1) : s[i] >= s[i + 1]

\* the partitions of n with every row at most m
RECURSIVE PartsAtMost(_, _)
PartsAtMost(n, m) ==
    IF n = 0 THEN {<<>>}
    ELSE UNION {{<<k>> \o p : p \in PartsAtMost(n - k, k)} :
                  k \in 1..(IF n < m THEN n ELSE m)}

\* the partitions of the numbers lo..hi
PartitionsOf(lo, hi) == UNION {PartsAtMost(n, n) : n \in lo..hi}

\* the sequences of positive integers that sum to n
RECURSIVE Compositions(_)
Compositions(n) ==
    IF n = 0 THEN {<<>>}
    ELSE UNION {{<<k>> \o c : c \in Compositions(n - k)} : k \in 1..n}

(***************************************************************************)
(* parse_cycle_type (lines 4-9).                                           *)
(***************************************************************************)
parse_cycle_type(counts) ==
    Flatten([i \in 1..Len(counts) |-> Repeat(i, counts[i])])

(***************************************************************************)
(* character_M (lines 11-31).  idx is 0-based as in the code.              *)
(***************************************************************************)
RECURSIVE backtrack(_, _, _)
backtrack(lengths, idx, rem) ==
    IF idx = Len(lengths)
    THEN IF \A i \in 1..Len(rem) : rem[i] = 0 THEN 1 ELSE 0
    ELSE LET length == lengths[idx + 1]
         IN  SumSeq([i \in 1..Len(rem) |->
                       IF rem[i] >= length
                       THEN backtrack(lengths, idx + 1,
                                      [rem EXCEPT ![i] = @ - length])
                       ELSE 0])

character_M(part, lengths) == backtrack(lengths, 0, part)

(***************************************************************************)
(* rim_hooks (lines 34-80).                                                *)
(***************************************************************************)
\* line 41: the cells (r, c) of the diagram
cells_of(sh) ==
    UNION {{<<r - 1, c>> : c \in 0..(sh[r] - 1)} : r \in 1..Len(sh)}

\* lines 44-45: cells with no neighbour to the right and none below
corners_of(cells) ==
    {x \in cells : <<x[1], x[2] + 1>> \notin cells /\ <<x[1] + 1, x[2]>> \notin cells}

\* mutant of is_border: "and" for "or"
is_border_and(cells, cell) ==
    /\ <<cell[1], cell[2] + 1>> \notin cells
    /\ <<cell[1] + 1, cell[2]>> \notin cells

\* mutant of is_border: the test left out
is_border_any(cells, cell) == TRUE

\* lines 47-50
is_border(cells, cell) ==
    \/ <<cell[1], cell[2] + 1>> \notin cells
    \/ <<cell[1] + 1, cell[2]>> \notin cells

\* mutant of new_shape_of: the rows without cells kept, as zeros
new_shape_with_zeros(sh, new_cells) ==
    [r \in 1..Len(sh) |-> Cardinality({x \in new_cells : x[1] = r - 1})]

\* lines 58-62: the row lengths of new_cells, rows without cells left out
new_shape_of(sh, new_cells) ==
    SelectSeq([r \in 1..Len(sh) |-> Cardinality({x \in new_cells : x[1] = r - 1})],
              LAMBDA row_len : row_len > 0)

\* mutant of height_of: the rows spanned, "- 1" forgotten
height_rows_spanned(path) == Cardinality({x[1] : x \in Range(path)})

\* lines 65-66: rows spanned by the path, minus one
height_of(path) == Cardinality({x[1] : x \in Range(path)}) - 1

\* lines 72-73: the directions a path is extended in, up then left
Directions == << <<-1, 0>>, <<0, -1>> >>

\* lines 53-75: the hooks that dfs(path, visited) appends, in order, each
\* with the path it comes from
RECURSIVE dfs(_, _, _, _, _)
dfs(sh, cells, length, path, visited) ==
    IF Len(path) = length
    THEN LET new_cells == cells \ Range(path)
             new_shape == new_shape_of(sh, new_cells)
         IN  IF SumSeq(new_shape) = SumSeq(sh) - length
             THEN << [hook |-> <<SortDesc(new_shape), height_of(path)>>,
                      path |-> path] >>
             ELSE <<>>
    ELSE LET last == path[Len(path)]
             step(d) ==
                 LET nxt == <<last[1] + d[1], last[2] + d[2]>>
                 IN  IF nxt \in cells /\ nxt \notin visited /\ is_border(cells, nxt)
                     THEN dfs(sh, cells, length, Append(path, nxt), visited \cup {nxt})
                     ELSE <<>>
         IN  Flatten([k \in 1..Len(Directions) |-> step(Directions[k])])

\* line 78: dfs([corner], {corner})
dfs_from(sh, length, corner) ==
    dfs(sh, cells_of(sh), length, <<corner>>, {corner})

\* The corners in one order.  The code iterates a Python set (lines 44, 77),
\* whose order the language leaves open; every caller only sums over the
\* hooks, and SpecHooks takes the corners in every order.
RECURSIVE SeqOfCorners(_)
SeqOfCorners(cs) ==
    IF cs = {} THEN <<>>
    ELSE LET first == CHOOSE x \in cs : \A y \in cs : x[1] <= y[1]
         IN  <<first>> \o SeqOfCorners(cs \ {first})

\* lines 34-80: the list of (new_shape, height) pairs
rim_hooks(sh, length) ==
    LET cs == SeqOfCorners(corners_of(cells_of(sh)))
        found == Flatten([k \in 1..Len(cs) |-> dfs_from(sh, length, cs[k])])
    IN  [k \in 1..Len(found) |-> found[k].hook]

(***************************************************************************)
(* character_S (lines 83-97).                                              *)
(***************************************************************************)
RECURSIVE mn(_, _)
mn(sh, cycles) ==
    IF cycles = <<>> THEN 1
    ELSE LET c == cycles[1]
             hs == rim_hooks(sh, c)
         IN  SumSeq([k \in 1..Len(hs) |->
                       MinusOnePow(hs[k][2]) * mn(hs[k][1], Tail(cycles))])

character_S(part, lengths) == mn(part, lengths)

(***************************************************************************)
(* The recursion of mn (lines 87-97) as a stack of calls.  A frame is one  *)
(* running call: its arguments, the list rim_hooks gave it (line 93), the  *)
(* index i of the hook the loop is at, and total (line 91).                *)
(***************************************************************************)
Frame(sh, cycles) ==
    [shape |-> sh, cycles |-> cycles,
     hooks |-> IF cycles = <<>> THEN <<>> ELSE rim_hooks(sh, cycles[1]),
     i |-> 1, total |-> 0]

Top == stack[Len(stack)]

\* the call has reached a return statement (line 90 or line 95)
Finished(f) == f.cycles = <<>> \/ f.i > Len(f.hooks)

\* what the call returns
ReturnValue(f) == IF f.cycles = <<>> THEN 1 ELSE f.total

\* the lru_cache of line 87
Cached(sh, cycles) == \E e \in cache : e.shape = sh /\ e.cycles = cycles
CachedValue(sh, cycles) ==
    (CHOOSE e \in cache : e.shape = sh /\ e.cycles = cycles).value

\* line 94, with the value v of the inner call: total += (-1)**height * v
Accumulate(f, v) ==
    [f EXCEPT !.total = @ + MinusOnePow(f.hooks[f.i][2]) * v, !.i = @ + 1]

(***************************************************************************)
(* main (lines 100-129).  Init is the state after lines 117-119.           *)
(***************************************************************************)
Idle ==
    /\ stack = <<>> /\ cache = {}
    /\ shape = <<>> /\ hook_length = 0 /\ todo = {} /\ hooks = <<>> /\ paths = <<>>
    /\ remaining = {} /\ acc = 0

Init ==
    /\ pc = "validate"
    /\ partition \in PartitionsOf(1, MaxMainN)
    /\ cycle_counts \in UNION {[1..k -> 0..MaxCount] : k \in 1..MaxMainN}
    /\ cycle_lengths = None /\ chi_M = None /\ chi_S = None /\ out = None
    /\ Idle

\* lines 121-122
MainValidate ==
    /\ pc = "validate"
    /\ IF Len(cycle_counts) # SumSeq(partition)
       THEN pc' = "error" /\ out' = "ValueError"
       ELSE pc' = "expand" /\ out' = out
    /\ UNCHANGED <<partition, cycle_counts, cycle_lengths, chi_M, chi_S>>
    /\ UNCHANGED <<mnVars, hookVars, orthVars>>

\* line 124
MainParseCycleType ==
    /\ pc = "expand"
    /\ cycle_lengths' = parse_cycle_type(cycle_counts)
    /\ pc' = "callM"
    /\ UNCHANGED <<partition, cycle_counts, chi_M, chi_S, out>>
    /\ UNCHANGED <<mnVars, hookVars, orthVars>>

\* line 125, and the whole of character_M
CallCharacterM ==
    /\ pc = "callM"
    /\ chi_M' = character_M(partition, cycle_lengths)
    /\ pc' = "callS"
    /\ UNCHANGED <<partition, cycle_counts, cycle_lengths, chi_S, out>>
    /\ UNCHANGED <<mnVars, hookVars, orthVars>>

\* line 126 and line 97: the outermost call of mn, on an empty cache
CallCharacterS ==
    /\ pc = "callS"
    /\ stack' = <<Frame(partition, cycle_lengths)>>
    /\ cache' = {}
    /\ pc' = "mn"
    /\ UNCHANGED <<mainVars, hookVars, orthVars>>

\* line 94: the inner call is not in the cache, and runs
MnRecurse ==
    /\ pc = "mn"
    /\ ~Finished(Top)
    /\ ~Cached(Top.hooks[Top.i][1], Tail(Top.cycles))
    /\ stack' = Append(stack, Frame(Top.hooks[Top.i][1], Tail(Top.cycles)))
    /\ UNCHANGED <<pc, cache, mainVars, hookVars, orthVars>>

\* line 94: the inner call is answered by the cache
MnCacheHit ==
    /\ pc = "mn"
    /\ ~Finished(Top)
    /\ Cached(Top.hooks[Top.i][1], Tail(Top.cycles))
    /\ stack' = [stack EXCEPT ![Len(stack)] =
                    Accumulate(@, CachedValue(Top.hooks[Top.i][1], Tail(Top.cycles)))]
    /\ UNCHANGED <<pc, cache, mainVars, hookVars, orthVars>>

\* lines 90 and 95: the call returns, to the call above it or to character_S
MnReturn ==
    /\ pc = "mn"
    /\ Finished(Top)
    /\ cache' = cache \cup {[shape |-> Top.shape, cycles |-> Top.cycles,
                             value |-> ReturnValue(Top)]}
    /\ IF Len(stack) = 1
       THEN /\ stack' = <<>>
            /\ chi_S' = ReturnValue(Top)
            /\ pc' = "returned"
       ELSE /\ stack' = [SubSeq(stack, 1, Len(stack) - 1) EXCEPT ![Len(stack) - 1] =
                            Accumulate(@, ReturnValue(Top))]
            /\ chi_S' = chi_S
            /\ pc' = pc
    /\ UNCHANGED <<partition, cycle_counts, cycle_lengths, chi_M, out>>
    /\ UNCHANGED <<hookVars, orthVars>>

\* lines 128-129
MainPrint ==
    /\ pc = "returned"
    /\ out' = <<chi_M, chi_S>>
    /\ pc' = "done"
    /\ UNCHANGED <<partition, cycle_counts, cycle_lengths, chi_M, chi_S>>
    /\ UNCHANGED <<mnVars, hookVars, orthVars>>

Next ==
    \/ MainValidate
    \/ MainParseCycleType
    \/ CallCharacterM
    \/ CallCharacterS
    \/ MnRecurse
    \/ MnCacheHit
    \/ MnReturn
    \/ MainPrint

Spec == Init /\ [][Next]_vars

(***************************************************************************)
(* character_M and character_S called directly, on a partition and any     *)
(* sequence of positive cycle lengths (totals equal or not).               *)
(***************************************************************************)
InitChar ==
    /\ pc = "callM"
    /\ partition \in PartitionsOf(1, MaxN)
    /\ cycle_lengths \in UNION {Compositions(m) : m \in 0..(MaxN + 1)}
    /\ cycle_counts = None /\ chi_M = None /\ chi_S = None /\ out = None
    /\ Idle

NextChar ==
    \/ CallCharacterM
    \/ CallCharacterS
    \/ MnRecurse
    \/ MnCacheHit
    \/ MnReturn

SpecChar == InitChar /\ [][NextChar]_vars

(***************************************************************************)
(* rim_hooks called directly.  InitHooks is the state after line 45; the   *)
(* loop of lines 77-78 takes the corners in any order.                     *)
(***************************************************************************)
InitHooks ==
    /\ pc = "corners"
    /\ shape \in PartitionsOf(0, MaxCells)
    /\ hook_length \in 1..(MaxCells + 1)
    /\ todo = corners_of(cells_of(shape))
    /\ hooks = <<>> /\ paths = <<>>
    /\ partition = None /\ cycle_counts = None /\ cycle_lengths = None
    /\ chi_M = None /\ chi_S = None /\ out = None
    /\ stack = <<>> /\ cache = {} /\ remaining = {} /\ acc = 0

\* lines 77-78: one corner, and the whole dfs from it
RimHooksDfs ==
    /\ pc = "corners"
    /\ \E corner \in todo :
         LET found == dfs_from(shape, hook_length, corner)
         IN  /\ hooks' = hooks \o [k \in 1..Len(found) |-> found[k].hook]
             /\ paths' = paths \o [k \in 1..Len(found) |-> found[k].path]
             /\ todo' = todo \ {corner}
    /\ UNCHANGED <<pc, shape, hook_length, mainVars, mnVars, orthVars>>

\* line 80
RimHooksReturn ==
    /\ pc = "corners"
    /\ todo = {}
    /\ pc' = "returned"
    /\ UNCHANGED <<hookVars, mainVars, mnVars, orthVars>>

NextHooks ==
    \/ RimHooksDfs
    \/ RimHooksReturn

SpecHooks == InitHooks /\ [][NextHooks]_vars

(***************************************************************************)
(* The sum over all partitions lambda of n of                              *)
(*   character_S(lambda, [1]*n) * character_S(lambda, cycle lengths)       *)
(* for a cycle-count vector of length n whose cycle lengths sum to n.      *)
(***************************************************************************)
InitOrth ==
    /\ pc = "expand"
    /\ cycle_counts \in
         UNION {{v \in [1..n -> 0..n] : SumSeq([i \in 1..n |-> i * v[i]]) = n} :
                  n \in 1..MaxMainN}
    /\ remaining = PartitionsOf(Len(cycle_counts), Len(cycle_counts))
    /\ acc = 0
    /\ partition = None /\ cycle_lengths = None
    /\ chi_M = None /\ chi_S = None /\ out = None
    /\ stack = <<>> /\ cache = {}
    /\ shape = <<>> /\ hook_length = 0 /\ todo = {} /\ hooks = <<>> /\ paths = <<>>

OrthExpand ==
    /\ pc = "expand"
    /\ cycle_lengths' = parse_cycle_type(cycle_counts)
    /\ pc' = "sum"
    /\ UNCHANGED <<partition, cycle_counts, chi_M, chi_S, out>>
    /\ UNCHANGED <<mnVars, hookVars, orthVars>>

OrthAdd ==
    /\ pc = "sum"
    /\ \E lambda \in remaining :
         /\ acc' = acc + character_S(lambda, Repeat(1, Len(cycle_counts)))
                         * character_S(lambda, cycle_lengths)
         /\ remaining' = remaining \ {lambda}
    /\ UNCHANGED <<pc, mainVars, mnVars, hookVars>>

OrthDone ==
    /\ pc = "sum"
    /\ remaining = {}
    /\ pc' = "summed"
    /\ UNCHANGED <<mainVars, mnVars, hookVars, orthVars>>

NextOrth ==
    \/ OrthExpand
    \/ OrthAdd
    \/ OrthDone

SpecOrth == InitOrth /\ [][NextOrth]_vars

(***************************************************************************)
(* The stack machine and the operator mn are two readings of the same      *)
(* lines: they return the same value.                                      *)
(***************************************************************************)
MachineAgrees ==
    pc = "returned" => chi_S = character_S(partition, cycle_lengths)

(***************************************************************************)
(* Properties.                                                             *)
(***************************************************************************)
ExpandedTotal == SumSeq(parse_cycle_type(cycle_counts))

\* C1: for partition [2,1] and cycle counts [0,0,1], main prints
\* chi_M = 0 and chi_S = -1.
C1_Scenario ==
    (pc = "done" /\ partition = <<2, 1>> /\ cycle_counts = <<0, 0, 1>>)
        => out = <<0, -1>>

RECURSIVE Factorial(_)
Factorial(n) == IF n = 0 THEN 1 ELSE n * Factorial(n - 1)

IsIdentityType(counts) ==
    /\ counts[1] = Len(counts)
    /\ \A i \in 2..Len(counts) : counts[i] = 0

\* C2: the sum over all partitions lambda of n of
\* character_S(lambda, [1]*n) * character_S(lambda, cycle lengths) is n! for
\* the identity cycle type and 0 for every other cycle type.
C2_RegularCharacter ==
    pc = "summed" =>
        acc = IF IsIdentityType(cycle_counts)
              THEN Factorial(Len(cycle_counts))
              ELSE 0

Reorderings(s) ==
    {[i \in 1..Len(s) |-> s[p[i]]] : p \in Permutations(1..Len(s))}

\* C3: character_S returns the same value for every ordering of the same
\* cycle lengths.
C3_OrderInvariant ==
    (pc = "returned" /\ SumSeq(partition) = SumSeq(cycle_lengths))
        => \A other \in Reorderings(cycle_lengths) :
              character_S(partition, other) = chi_S

\* C4: when the expanded cycle lengths do not sum to sum(partition), main
\* fails before character_M or character_S is called and prints no pair; a
\* pair is printed only when the two totals are equal.
C4_TotalsValidated ==
    /\ ExpandedTotal # SumSeq(partition)
         => /\ pc \in {"validate", "error"}
            /\ chi_M = None /\ chi_S = None /\ stack = <<>>
    /\ pc = "done" => ExpandedTotal = SumSeq(partition)

\* C5: for the one-row partition [n] and every sequence of positive cycle
\* lengths summing to n, character_M returns 1 and character_S returns 1.
C5_OneRow ==
    (pc = "returned" /\ Len(partition) = 1
                     /\ SumSeq(cycle_lengths) = SumSeq(partition))
        => chi_M = 1 /\ chi_S = 1

C5_Witness ==
    /\ pc = "returned"
    /\ partition = <<3>> /\ cycle_lengths = <<2, 1>>
    /\ chi_M = 1 /\ chi_S = 1

\* C6: for the one-column partition [1,...,1] with n rows and every sequence
\* of positive cycle lengths summing to n, character_S returns
\* (-1)^(n - k), k the number of cycles.
C6_OneColumn ==
    (pc = "returned" /\ (\A i \in 1..Len(partition) : partition[i] = 1)
                     /\ SumSeq(cycle_lengths) = SumSeq(partition))
        => chi_S = IF (Len(partition) - Len(cycle_lengths)) % 2 = 0 THEN 1 ELSE -1

C6_Witness ==
    /\ pc = "returned"
    /\ partition = <<1, 1, 1>> /\ cycle_lengths = <<2, 1>>
    /\ chi_S = -1

(***************************************************************************)
(* The rim hooks of a shape by their definition: the sets S of cells that  *)
(* are edge-connected, hold no 2x2 block, and leave a Young diagram.       *)
(***************************************************************************)
Adjacent(x, y) ==
    \/ x[1] = y[1] /\ (x[2] = y[2] + 1 \/ y[2] = x[2] + 1)
    \/ x[2] = y[2] /\ (x[1] = y[1] + 1 \/ y[1] = x[1] + 1)

RECURSIVE Grow(_, _)
Grow(S, reached) ==
    LET more == {x \in S \ reached : \E y \in reached : Adjacent(x, y)}
    IN  IF more = {} THEN reached ELSE Grow(S, reached \cup more)

EdgeConnected(S) == S # {} /\ Grow(S, {CHOOSE x \in S : TRUE}) = S

NoSquare(S) ==
    \A x \in S : ~ /\ <<x[1] + 1, x[2]>> \in S
                   /\ <<x[1], x[2] + 1>> \in S
                   /\ <<x[1] + 1, x[2] + 1>> \in S

RowLen(cs, r) == Cardinality({x \in cs : x[1] = r})

\* every row a run of cells from column 0, the rows non-increasing downwards
IsDiagram(cs, rows) ==
    /\ \A x \in cs : \A c \in 0..(x[2] - 1) : <<x[1], c>> \in cs
    /\ \A r \in 0..(rows - 2) : RowLen(cs, r) >= RowLen(cs, r + 1)

\* the non-empty rows' lengths, top to bottom
ResidualRows(cs, rows) ==
    SelectSeq([r \in 1..rows |-> RowLen(cs, r - 1)], LAMBDA n : n > 0)

ReferenceHooks(sh, length) ==
    {S \in SUBSET cells_of(sh) :
        /\ Cardinality(S) = length
        /\ EdgeConnected(S)
        /\ NoSquare(S)
        /\ IsDiagram(cells_of(sh) \ S, Len(sh))}

ReferencePair(sh, S) ==
    << ResidualRows(cells_of(sh) \ S, Len(sh)),
       Cardinality({x[1] : x \in S}) - 1 >>

\* a multiset as the function from its elements to their multiplicities
ReferenceBag(sh, length) ==
    LET ref == ReferenceHooks(sh, length)
    IN  [h \in {ReferencePair(sh, S) : S \in ref} |->
            Cardinality({S \in ref : ReferencePair(sh, S) = h})]

BagOfSeq(s) ==
    [h \in Range(s) |-> Cardinality({k \in 1..Len(s) : s[k] = h})]

C8_ResidualIsDiagram ==
    \A k \in 1..Len(paths) :
        LET residual == cells_of(shape) \ Range(paths[k])
        IN  /\ IsDiagram(residual, Len(shape))
            /\ hooks[k][1] = ResidualRows(residual, Len(shape))

C8_Witness ==
    /\ pc = "returned"
    /\ shape = <<3, 3>> /\ hook_length = 3
    /\ paths = << << <<1, 2>>, <<1, 1>>, <<1, 0>> >> >>
    /\ hooks = << <<(<<3>>), 0>> >>

HooksFrom(corner) == {k \in 1..Len(paths) : paths[k][1] = corner}

\* C9 as stated: at most one hook per outer corner, and no more entries
\* than outer corners.
C9_OnePerCorner ==
    /\ \A corner \in corners_of(cells_of(shape)) :
          Cardinality(HooksFrom(corner)) <= 1
    /\ Len(hooks) <= Cardinality(corners_of(cells_of(shape)))

\* C9, amended: at most two hooks per outer corner (one straight up, one
\* straight left), at most one when the length is 1, and no more entries
\* than twice the outer corners.
C9_TwoPerCorner ==
    /\ \A corner \in corners_of(cells_of(shape)) :
          Cardinality(HooksFrom(corner)) <= (IF hook_length = 1 THEN 1 ELSE 2)
    /\ Len(hooks) <= 2 * Cardinality(corners_of(cells_of(shape)))

C9_Witness ==
    /\ pc = "returned"
    /\ shape = <<2, 2>> /\ hook_length = 2
    /\ Cardinality(HooksFrom(<<1, 1>>)) = 2

ConsistentCall(sh, cycles) ==
    /\ SumSeq(sh) = SumSeq(cycles)
    /\ IsPartition(sh)
    /\ cycles = <<>> => sh = <<>>

\* C10: when character_S is called with a partition and cycle lengths of the
\* same total, every call mn(shape, cycles) has sum(shape) = sum(cycles) and
\* a non-increasing shape without zero rows; a call with no cycles left has
\* the empty shape.
C10_CallsConsistent ==
    (pc \in {"mn", "returned"} /\ SumSeq(partition) = SumSeq(cycle_lengths))
        => /\ \A k \in 1..Len(stack) :
                 ConsistentCall(stack[k].shape, stack[k].cycles)
           /\ \A e \in cache : ConsistentCall(e.shape, e.cycles)

C10_Witness ==
    /\ pc = "mn"
    /\ SumSeq(partition) = SumSeq(cycle_lengths)
    /\ Len(stack) >= 3
    /\ Top.cycles = <<>> /\ Top.shape = <<>>

====
